---- MODULE Spec2Model ----
(***************************************************************************)
(* k0sctl, cmd/flags.go: the logging set-up (a screen hook and a file hook *)
(* added to the logrus standard logger), the chaining of Before functions  *)
(* (actions) and the configuration reader (configReader, initConfig).      *)
(*                                                                         *)
(* What the logrus, os and cli libraries do is part of the semantics of    *)
(* the calls the source makes and is modelled as those libraries document  *)
(* it:                                                                     *)
(*   - logrus levels are the numbers Panic=0 .. Trace=6 and AllLevels      *)
(*     lists them in that order;                                           *)
(*   - AddHook files a hook under every level of its Levels();             *)
(*   - logging an entry fires the hooks filed under the entry's level in   *)
(*     the order they were added and stops at the first hook whose Fire    *)
(*     returns an error, which is printed to stderr ("Failed to fire       *)
(*     hook"); the caller goes on;                                         *)
(*   - hooks are fired without the logger's lock held, so two goroutines   *)
(*     may be inside Fire at once;                                         *)
(*   - one Write call on an *os.File appends all its bytes or fails; the   *)
(*     bytes of two Write calls are never mixed.                           *)
(* What a caller does after an entry has been dispatched (os.Exit after    *)
(* log.Fatal, the panic of log.Panic) is outside the model, as are         *)
(* exec.DisableRedact and rig.SetLogger (state of other packages).         *)
(***************************************************************************)
EXTENDS Integers, Sequences, FiniteSets, TLC

VARIABLES
    loggerLevel,   \* logrus standard logger: its level
    loggerOut,     \* logrus standard logger: its output ("stderr", "discard")
    hooks,         \* logrus standard logger: level -> hooks, in the order added
    stdout,        \* bytes written to os.Stdout by this process
    stderr,        \* messages written to os.Stderr by this process
    logDir,        \* whether the cache directory exists
    logFile,       \* bytes of <cache dir>/k0sctl.log (kept across processes)
    logFileExists, \* whether k0sctl.log exists
    Colorize,      \* the package variable Colorize: colours on or off
    analyticsClient, \* whether analytics.Client was set
    ctx,           \* the cli context: flag values
    chain,         \* the functions handed to actions()
    pc,            \* index of the next function of the chain
    chainErr,      \* the error the chain has met, or Nil
    phase,         \* "before": in the chain, "run": the command runs, "failed", "exited"
    ran,           \* history: the functions of the chain that were called, with what each returned
    logFileErr,    \* history: what this process's LogFile call returned ("uncalled" before)
    emitted,       \* history: the entries logged by this process, with what each hook did
    nEmits,        \* number of entries logged over all processes
    nSessions,     \* number of processes started
    nLogFileOk,    \* history: number of LogFile calls that returned a writer
    nBannerOk,     \* history: number of banner writes that succeeded
    cfg,           \* configuration reader: the call's inputs and its result
    threads        \* concurrent emitters: each goroutine's position in entry.log

vars == <<loggerLevel, loggerOut, hooks, stdout, stderr, logDir, logFile,
          logFileExists, Colorize, analyticsClient, ctx, chain, pc, chainErr,
          phase, ran, logFileErr, emitted, nEmits, nSessions, nLogFileOk, nBannerOk,
          cfg, threads>>

logVars == <<loggerLevel, loggerOut, hooks, Colorize>>
fsVars == <<logDir, logFile, logFileExists, nLogFileOk, nBannerOk>>
procVars == <<ctx, chain, pc, chainErr, phase, ran, logFileErr, nSessions,
              analyticsClient>>

Nil == "nil"

\* ------------------------------------------------------------ bounds
MaxEmits == 1
MaxSessions == 2
MaxSinkEmits == 2
MaxConcEmits == 2

\* ------------------------------------------------------------ logrus levels
PanicLevel == 0
FatalLevel == 1
ErrorLevel == 2
WarnLevel == 3
InfoLevel == 4
DebugLevel == 5
TraceLevel == 6

AllLevels == <<PanicLevel, FatalLevel, ErrorLevel, WarnLevel, InfoLevel,
               DebugLevel, TraceLevel>>

LevelSet == {AllLevels[i] : i \in 1..Len(AllLevels)}

Range(s) == {s[i] : i \in 1..Len(s)}

\* ------------------------------------------------------------ loghook
\* A mutant of SetLevel: the comparison the other way round.
SetLevelInverted(level) == SelectSeq(AllLevels, LAMBDA l : level <= l)

\* func (h *loghook) SetLevel(level log.Level): the levels l of AllLevels,
\* in order, with level >= l.
SetLevel(level) == SelectSeq(AllLevels, LAMBDA l : level >= l)

\* func (h *loghook) Levels()
Levels(h) == h.levels

\* log.TextFormatter.Format: the bytes of one line. A byte is [k, v]: the
\* field and its value; the line ends with a newline. The timestamp is left
\* out with DisableTimestamp, and full with FullTimestamp; the level is
\* written by its number, so DisableLevelTruncation changes no byte here.
Format(f, entry) ==
    (IF f.DisableTimestamp THEN <<>>
     ELSE <<[k |-> "time", v |-> IF f.FullTimestamp THEN 1 ELSE 0]>>)
    \o (IF f.ForceColors THEN <<[k |-> "color", v |-> entry.level]>> ELSE <<>>)
    \o <<[k |-> "level", v |-> entry.level],
         [k |-> "msg", v |-> entry.id],
         [k |-> "nl", v |-> 0]>>

\* A mutant of Fire: no return after a failed Format, the (empty) line is
\* written all the same.
FireNoReturn(h, entry, fault) ==
    IF fault = "format"
    THEN [name |-> h.name, writer |-> h.Writer, err |-> Nil,
          bytes |-> <<>>, stderr |-> <<"Unable to format log entry">>,
          fcalls |-> 1, wcalls |-> 1]
    ELSE LET line == Format(h.Formatter, entry)
         IN [name |-> h.name, writer |-> h.Writer,
             err |-> IF fault = "write" THEN "write" ELSE Nil,
             bytes |-> IF fault = "write" THEN <<>> ELSE line,
             stderr |-> <<>>, fcalls |-> 1, wcalls |-> 1]

\* func (h *loghook) Fire(entry): Format, then one Write of the line.
\* fault is what goes wrong in this call: "none", "format" (Format returns an
\* error) or "write" (Write returns an error and appends nothing).
\* The result: the error returned, the bytes appended to h.Writer, the
\* message printed to stderr, and the calls made.
Fire(h, entry, fault) ==
    IF fault = "format"
    THEN [name |-> h.name, writer |-> h.Writer, err |-> "format",
          bytes |-> <<>>, stderr |-> <<"Unable to format log entry">>,
          fcalls |-> 1, wcalls |-> 0]
    ELSE LET line == Format(h.Formatter, entry)
         IN [name |-> h.name, writer |-> h.Writer,
             err |-> IF fault = "write" THEN "write" ELSE Nil,
             bytes |-> IF fault = "write" THEN <<>> ELSE line,
             stderr |-> <<>>, fcalls |-> 1, wcalls |-> 1]

\* screenLoggerHook(lvl); forceColors is true on windows and when stdout is a
\* character device. name and lvl are history fields (the code keeps only
\* the levels).
screenLoggerHook(lvl, forceColors) ==
    [name |-> "screen", lvl |-> lvl, Writer |-> "stdout",
     Formatter |-> [DisableTimestamp |-> lvl < DebugLevel,
                    ForceColors |-> forceColors,
                    FullTimestamp |-> FALSE,
                    DisableLevelTruncation |-> FALSE],
     levels |-> SetLevel(lvl)]

\* fileLoggerHook(logFile)
fileLoggerHook ==
    [name |-> "file", lvl |-> DebugLevel, Writer |-> "logfile",
     Formatter |-> [DisableTimestamp |-> FALSE,
                    ForceColors |-> FALSE,
                    FullTimestamp |-> TRUE,
                    DisableLevelTruncation |-> TRUE],
     levels |-> SetLevel(DebugLevel)]

\* ------------------------------------------------------------ logrus dispatch
NoHooks == [l \in LevelSet |-> <<>>]

\* log.AddHook(hook): the hook is appended under each of its Levels().
AddHook(hs, h) ==
    [l \in LevelSet |-> IF l \in Range(Levels(h)) THEN Append(hs[l], h) ELSE hs[l]]

Faults == {"none", "format", "write"}

\* The hooks filed under the entry's level are fired in order from the i-th;
\* the first error ends the loop. faults[i] is what goes wrong in the i-th
\* hook's Fire. The result lists what each fired hook did.
RECURSIVE FireFrom(_, _, _, _)
FireFrom(hs, i, entry, faults) ==
    IF i > Len(hs) THEN <<>>
    ELSE LET out == Fire(hs[i], entry, faults[i])
         IN IF out.err # Nil THEN <<out>>
            ELSE <<out>> \o FireFrom(hs, i + 1, entry, faults)

\* The bytes the outcomes append to writer w, in order.
RECURSIVE BytesFor(_, _)
BytesFor(outs, w) ==
    IF outs = <<>> THEN <<>>
    ELSE (IF Head(outs).writer = w THEN Head(outs).bytes ELSE <<>>)
         \o BytesFor(Tail(outs), w)

\* The messages the outcomes print to stderr: Fire's own and, for a failed
\* hook, the logger's "Failed to fire hook".
RECURSIVE StderrFor(_)
StderrFor(outs) ==
    IF outs = <<>> THEN <<>>
    ELSE Head(outs).stderr
         \o (IF Head(outs).err # Nil THEN <<"Failed to fire hook">> ELSE <<>>)
         \o StderrFor(Tail(outs))

\* One log call of a single goroutine at `level`, of at most `max` in a run
\* of the model: nothing when the logger's level does not enable it;
\* otherwise the hooks, then the logger's own output (discarded once
\* initLogging has run).
Dispatch(level, faults, max) ==
    LET entry == [id |-> nEmits + 1, level |-> level]
        outs == FireFrom(hooks[level], 1, entry, faults)
    IN /\ nEmits < max
       /\ level <= loggerLevel
       /\ nEmits' = nEmits + 1
       /\ stdout' = stdout \o BytesFor(outs, "stdout")
       /\ logFile' = logFile \o BytesFor(outs, "logfile")
       /\ stderr' = stderr \o StderrFor(outs)
                    \o (IF loggerOut = "stderr" THEN <<"entry">> ELSE <<>>)
       /\ emitted' = Append(emitted, [id |-> entry.id, level |-> level, outs |-> outs])

FaultChoices == [1..2 -> Faults]

\* ------------------------------------------------------------ log file
BannerMsg == 0

\* The line LogFile writes: time="..." level=info msg="###### New session ######"
Banner == <<[k |-> "time", v |-> 1], [k |-> "level", v |-> InfoLevel],
            [k |-> "msg", v |-> BannerMsg], [k |-> "nl", v |-> 0]>>

LogFileFaults == {"none", "mkdir", "open", "banner"}

\* cache.EnsureDir(dir): nothing when the directory exists; otherwise it is
\* created, or the error of creating it is returned.
EnsureDir(dir, fault) ==
    IF dir THEN [err |-> Nil, dir |-> TRUE]
    ELSE IF fault = "mkdir" THEN [err |-> "mkdir", dir |-> FALSE]
    ELSE [err |-> Nil, dir |-> TRUE]

\* A mutant of LogFile: the file is opened without O_APPEND and truncated.
LogFileTruncating(dir, exists, file, fault) ==
    LET d == EnsureDir(dir, fault)
    IN IF d.err # Nil
       THEN [err |-> "error while creating log directory", dir |-> d.dir,
             exists |-> exists, file |-> file, banner |-> FALSE]
       ELSE IF fault = "open"
       THEN [err |-> "Failed to open log", dir |-> d.dir,
             exists |-> exists, file |-> file, banner |-> FALSE]
       ELSE [err |-> Nil, dir |-> d.dir, exists |-> TRUE,
             file |-> IF fault = "banner" THEN <<>> ELSE Banner,
             banner |-> fault # "banner"]

\* LogFile(): the directory is ensured, k0sctl.log is opened with
\* O_RDWR|O_CREATE|O_APPEND|O_SYNC and the banner is written to it; the
\* result of that write is dropped (`_, _ = fmt.Fprintf`). fault: "mkdir"
\* (EnsureDir fails), "open" (OpenFile fails), "banner" (the banner's write
\* fails), "none".
LogFile(dir, exists, file, fault) ==
    LET d == EnsureDir(dir, fault)
    IN IF d.err # Nil
       THEN [err |-> "error while creating log directory", dir |-> d.dir,
             exists |-> exists, file |-> file, banner |-> FALSE]
       ELSE IF fault = "open"
       THEN [err |-> "Failed to open log", dir |-> d.dir,
             exists |-> exists, file |-> file, banner |-> FALSE]
       ELSE [err |-> Nil, dir |-> d.dir, exists |-> TRUE,
             file |-> IF fault = "banner" THEN file ELSE file \o Banner,
             banner |-> fault # "banner"]

\* ------------------------------------------------------------ configReader
Files == {"-", "k0sctl.yaml", "k0sctl.yml", "other.yaml"}
Tokens == {"-", "", "k0sctl.yaml", "./k0sctl.yaml", "k0sctl.yml", "other.yaml"}
StdinModes == {"pipe", "tty", "staterr"}
ConfigFaults == {"none", "abs", "open", "read"}

\* The file a path names ("./k0sctl.yaml" and "k0sctl.yaml" are one file).
Canon(path) == IF path = "./k0sctl.yaml" THEN "k0sctl.yaml" ELSE path

\* os.Stat(fn) succeeds
StatOk(fn, files) == fn # "" /\ Canon(fn) \in files

\* A mutant of Variants: the fallback is added for every token.
VariantsAlways(f) == <<f, "k0sctl.yml">>

\* variants := []string{f}; "k0sctl.yml" is added for f == "k0sctl.yaml".
Variants(f) == IF f = "k0sctl.yaml" THEN <<f, "k0sctl.yml">> ELSE <<f>>

\* The loop over the variants from the i-th: a variant os.Stat fails on is
\* skipped; the first other one is made absolute and opened, and the loop
\* returns with the file or with the error of Abs or Open. statted lists the
\* paths os.Stat was called on, opens the paths os.Open was called on.
RECURSIVE TryVariants(_, _, _, _, _)
TryVariants(vs, i, files, fault, statted) ==
    IF i > Len(vs)
    THEN [stream |-> Nil, err |-> "failed to locate configuration",
          statted |-> statted, opens |-> <<>>, stdinStat |-> FALSE]
    ELSE IF ~StatOk(vs[i], files)
    THEN TryVariants(vs, i + 1, files, fault, Append(statted, vs[i]))
    ELSE IF fault = "abs"
    THEN [stream |-> Nil, err |-> "abs", statted |-> Append(statted, vs[i]),
          opens |-> <<>>, stdinStat |-> FALSE]
    ELSE IF fault = "open"
    THEN [stream |-> Nil, err |-> "open", statted |-> Append(statted, vs[i]),
          opens |-> <<vs[i]>>, stdinStat |-> FALSE]
    ELSE [stream |-> Canon(vs[i]), err |-> Nil, statted |-> Append(statted, vs[i]),
          opens |-> <<vs[i]>>, stdinStat |-> FALSE]

\* A mutant of configReader: a file named "-" is looked for first.
configReaderDashFile(f, files, stdin, fault) ==
    IF f = "-" /\ ~StatOk(f, files)
    THEN IF stdin = "staterr"
         THEN [stream |-> Nil, err |-> "can't stat stdin", statted |-> <<f>>,
               opens |-> <<>>, stdinStat |-> TRUE]
         ELSE IF stdin = "pipe"
         THEN [stream |-> "stdin", err |-> Nil, statted |-> <<f>>,
               opens |-> <<>>, stdinStat |-> TRUE]
         ELSE [stream |-> Nil, err |-> "can't read stdin", statted |-> <<f>>,
               opens |-> <<>>, stdinStat |-> TRUE]
    ELSE TryVariants(Variants(f), 1, files, fault, <<>>)

\* configReader(f). stdin: "pipe" (not a character device), "tty" (a
\* character device), "staterr" (os.Stdin.Stat fails).
configReader(f, files, stdin, fault) ==
    IF f = "-"
    THEN IF stdin = "staterr"
         THEN [stream |-> Nil, err |-> "can't stat stdin", statted |-> <<>>,
               opens |-> <<>>, stdinStat |-> TRUE]
         ELSE IF stdin = "pipe"
         THEN [stream |-> "stdin", err |-> Nil, statted |-> <<>>,
               opens |-> <<>>, stdinStat |-> TRUE]
         ELSE [stream |-> Nil, err |-> "can't read stdin", statted |-> <<>>,
               opens |-> <<>>, stdinStat |-> TRUE]
    ELSE TryVariants(Variants(f), 1, files, fault, <<>>)

\* The value ctx.Set("config", string(content)) stores for a stream.
Content(stream) == [content |-> stream]

\* initConfig(ctx): nothing for an empty flag; otherwise the flag's value is
\* replaced by the content read from configReader's stream. fault "read":
\* io.ReadAll fails.
initConfig(f, files, stdin, fault) ==
    IF f = ""
    THEN [err |-> Nil, config |-> f, called |-> FALSE,
          cr |-> [stream |-> Nil, err |-> Nil, statted |-> <<>>, opens |-> <<>>,
                  stdinStat |-> FALSE]]
    ELSE LET cr == configReader(f, files, stdin, fault)
         IN IF cr.err # Nil
            THEN [err |-> cr.err, config |-> f, called |-> TRUE, cr |-> cr]
            ELSE IF fault = "read"
            THEN [err |-> "read", config |-> f, called |-> TRUE, cr |-> cr]
            ELSE [err |-> Nil, config |-> Content(cr.stream), called |-> TRUE, cr |-> cr]

\* ------------------------------------------------------------ set-up
\* A mutant of logLevelFromCtx: the debug flag is looked at first.
logLevelDebugFirst(c, defaultLevel) ==
    IF c.debug THEN DebugLevel
    ELSE IF c.trace THEN TraceLevel
    ELSE defaultLevel

\* logLevelFromCtx(ctx, defaultLevel)
logLevelFromCtx(c, defaultLevel) ==
    IF c.trace THEN TraceLevel
    ELSE IF c.debug THEN DebugLevel
    ELSE defaultLevel

\* initScreenLogger(lvl)
initScreenLogger(hs, lvl, forceColors) == AddHook(hs, screenLoggerHook(lvl, forceColors))

\* initFileLogger(): lf is what LogFile returned; the file hook is added
\* when LogFile returned no error.
initFileLogger(hs, lf) ==
    IF lf.err # Nil THEN [err |-> lf.err, hooks |-> hs]
    ELSE [err |-> Nil, hooks |-> AddHook(hs, fileLoggerHook)]

ApplyChain == <<"initLogging", "initConfig", "displayLogo", "initAnalytics",
                "displayCopyright">>
SilentChain == <<"initSilentLogging", "initConfig">>
Chains == {ApplyChain, SilentChain}

Contexts == [trace : BOOLEAN, debug : BOOLEAN, disableTelemetry : BOOLEAN,
             config : {"", "k0sctl.yaml"}]

\* A mutant of actionsLoop: the loop goes on after an error.
actionsLoopIgnoresErr == pc <= Len(chain)

\* actions(funcs...): the loop calls the next function while there is one
\* and none has returned an error.
actionsLoop == pc <= Len(chain) /\ chainErr = Nil

\* The function `name` is the one the chain calls now.
Calls(name) == phase = "before" /\ actionsLoop /\ chain[pc] = name

\* The function `name` returns err to the loop.
Returns(name, err) ==
    /\ pc' = pc + 1
    /\ ran' = Append(ran, [f |-> name, err |-> err])
    /\ chainErr' = err

\* The body shared by initLogging and initSilentLogging (they differ in the
\* default level and in the order of two independent statements).
InitLoggingBody(name, defaultLevel) ==
    /\ Calls(name)
    /\ \E forceColors \in BOOLEAN, fault \in LogFileFaults :
          LET lf == LogFile(logDir, logFileExists, logFile, fault)
              withScreen == initScreenLogger(hooks, logLevelFromCtx(ctx, defaultLevel),
                                             forceColors)
              r == initFileLogger(withScreen, lf)
          IN /\ loggerLevel' = TraceLevel
             /\ loggerOut' = "discard"
             /\ Colorize' = IF forceColors THEN TRUE ELSE Colorize
             /\ hooks' = r.hooks
             /\ logDir' = lf.dir
             /\ logFileExists' = lf.exists
             /\ logFile' = lf.file
             /\ nLogFileOk' = IF lf.err = Nil THEN nLogFileOk + 1 ELSE nLogFileOk
             /\ nBannerOk' = IF lf.banner THEN nBannerOk + 1 ELSE nBannerOk
             /\ logFileErr' = lf.err
             /\ Returns(name, r.err)
    /\ UNCHANGED <<stdout, stderr, analyticsClient, ctx, chain, phase, emitted,
                   nEmits, nSessions, cfg, threads>>

\* initLogging(ctx)
InitLogging == InitLoggingBody("initLogging", InfoLevel)

\* initSilentLogging(ctx)
InitSilentLogging == InitLoggingBody("initSilentLogging", FatalLevel)

\* initConfig(ctx), with the files it finds (the flag values of Contexts
\* name no other file and do not read the standard input).
InitConfig ==
    /\ Calls("initConfig")
    /\ \E files \in SUBSET {"k0sctl.yaml", "k0sctl.yml"}, stdin \in {"tty"},
          fault \in ConfigFaults :
          LET r == initConfig(ctx.config, files, stdin, fault)
          IN /\ ctx' = [ctx EXCEPT !.config = r.config]
             /\ Returns("initConfig", r.err)
    /\ UNCHANGED <<logVars, fsVars, stdout, stderr, analyticsClient, chain, logFileErr, phase,
                   emitted, nEmits, nSessions, cfg, threads>>

Text(n) == <<[k |-> "text", v |-> n], [k |-> "nl", v |-> 0]>>

\* displayLogo(ctx)
DisplayLogo ==
    /\ Calls("displayLogo")
    /\ stdout' = stdout \o Text(0)
    /\ Returns("displayLogo", Nil)
    /\ UNCHANGED <<logVars, fsVars, stderr, analyticsClient, ctx, chain, logFileErr, phase,
                   emitted, nEmits, nSessions, cfg, threads>>

\* displayCopyright(ctx)
DisplayCopyright ==
    /\ Calls("displayCopyright")
    /\ stdout' = stdout \o Text(1)
                 \o (IF ~ctx.disableTelemetry THEN Text(2) ELSE <<>>)
                 \o Text(3) \o Text(4)
    /\ Returns("displayCopyright", Nil)
    /\ UNCHANGED <<logVars, fsVars, stderr, analyticsClient, ctx, chain, logFileErr, phase,
                   emitted, nEmits, nSessions, cfg, threads>>

\* initAnalytics(ctx): a trace entry and nil when telemetry is disabled or
\* the write key is empty
InitAnalyticsOff ==
    /\ Calls("initAnalytics")
    /\ \E writeKeyEmpty \in BOOLEAN, faults \in FaultChoices :
          /\ ctx.disableTelemetry \/ writeKeyEmpty
          /\ Dispatch(TraceLevel, faults, MaxEmits)
    /\ Returns("initAnalytics", Nil)
    /\ UNCHANGED <<logVars, logDir, logFileExists, nLogFileOk, nBannerOk,
                   analyticsClient, ctx, chain, logFileErr, phase, nSessions, cfg, threads>>

\* initAnalytics(ctx): otherwise the client is made and set, or the error of
\* making it is returned.
InitAnalyticsOn ==
    /\ Calls("initAnalytics")
    /\ ~ctx.disableTelemetry
    /\ \E ok \in BOOLEAN :
          /\ analyticsClient' = IF ok THEN TRUE ELSE analyticsClient
          /\ Returns("initAnalytics", IF ok THEN Nil ELSE "segment")
    /\ UNCHANGED <<logVars, fsVars, stdout, stderr, ctx, chain, logFileErr, phase, emitted,
                   nEmits, nSessions, cfg, threads>>

\* The function actions() built returns: the first error, or nil after the
\* last function; the command runs after nil.
ActionsReturn ==
    /\ phase = "before"
    /\ ~actionsLoop
    /\ phase' = IF chainErr = Nil THEN "run" ELSE "failed"
    /\ UNCHANGED <<logVars, fsVars, stdout, stderr, analyticsClient, ctx, chain, logFileErr, pc,
                   chainErr, ran, emitted, nEmits, nSessions, cfg, threads>>

\* The running command logs an entry at `level`.
Log ==
    /\ phase = "run"
    /\ \E level \in LevelSet, faults \in FaultChoices : Dispatch(level, faults, MaxEmits)
    /\ UNCHANGED <<logVars, logDir, logFileExists, nLogFileOk, nBannerOk, procVars,
                   cfg, threads>>

\* The process ends and k0sctl is started again: all but the file system is
\* as at the start.
NewProcess ==
    /\ phase \in {"run", "failed"}
    /\ nSessions < MaxSessions
    /\ nSessions' = nSessions + 1
    /\ loggerLevel' = InfoLevel
    /\ loggerOut' = "stderr"
    /\ hooks' = NoHooks
    /\ stdout' = <<>>
    /\ stderr' = <<>>
    /\ Colorize' = FALSE
    /\ analyticsClient' = FALSE
    /\ ctx' \in Contexts
    /\ chain' \in Chains
    /\ pc' = 1
    /\ chainErr' = Nil
    /\ phase' = "before"
    /\ ran' = <<>>
    /\ logFileErr' = "uncalled"
    /\ emitted' = <<>>
    /\ UNCHANGED <<fsVars, nEmits, cfg, threads>>

NoCfg == [done |-> FALSE]
NoThreads == <<>>

Init ==
    /\ loggerLevel = InfoLevel
    /\ loggerOut = "stderr"
    /\ hooks = NoHooks
    /\ stdout = <<>>
    /\ stderr = <<>>
    /\ logDir = FALSE
    /\ logFile = <<>>
    /\ logFileExists = FALSE
    /\ Colorize = FALSE
    /\ analyticsClient = FALSE
    /\ ctx \in Contexts
    /\ chain \in Chains
    /\ pc = 1
    /\ chainErr = Nil
    /\ phase = "before"
    /\ ran = <<>>
    /\ logFileErr = "uncalled"
    /\ emitted = <<>>
    /\ nEmits = 0
    /\ nSessions = 1
    /\ nLogFileOk = 0
    /\ nBannerOk = 0
    /\ cfg = NoCfg
    /\ threads = NoThreads

Next ==
    \/ InitLogging
    \/ InitSilentLogging
    \/ InitConfig
    \/ DisplayLogo
    \/ DisplayCopyright
    \/ InitAnalyticsOff
    \/ InitAnalyticsOn
    \/ ActionsReturn
    \/ Log
    \/ NewProcess

Spec == Init /\ [][Next]_vars

\* ------------------------------------------------------------ one sink
\* A loghook of any threshold alone on the logger, and entries logged
\* through it.
NoContext == [trace |-> FALSE, debug |-> FALSE, disableTelemetry |-> FALSE, config |-> ""]

Idle(ph) ==
    /\ stdout = <<>>
    /\ stderr = <<>>
    /\ Colorize = FALSE
    /\ analyticsClient = FALSE
    /\ chain = <<>>
    /\ pc = 1
    /\ chainErr = Nil
    /\ phase = ph
    /\ ran = <<>>
    /\ emitted = <<>>
    /\ nEmits = 0
    /\ nSessions = 1
    /\ nLogFileOk = 0
    /\ nBannerOk = 0
    /\ cfg = NoCfg

InitSink ==
    /\ Idle("sink")
    /\ loggerLevel = TraceLevel
    /\ loggerOut = "discard"
    /\ \E lvl \in LevelSet, forceColors \in BOOLEAN :
          hooks = initScreenLogger(NoHooks, lvl, forceColors)
    /\ logDir = FALSE
    /\ logFile = <<>>
    /\ logFileExists = FALSE
    /\ logFileErr = "uncalled"
    /\ ctx = NoContext
    /\ threads = NoThreads

SinkLog ==
    /\ phase = "sink"
    /\ \E level \in LevelSet, faults \in FaultChoices : Dispatch(level, faults, MaxSinkEmits)
    /\ UNCHANGED <<logVars, logDir, logFileExists, nLogFileOk, nBannerOk, procVars,
                   cfg, threads>>

SpecSink == InitSink /\ [][SinkLog]_vars

\* ------------------------------------------------------------ configuration
InitCfg ==
    /\ Idle("config")
    /\ loggerLevel = InfoLevel
    /\ loggerOut = "stderr"
    /\ hooks = NoHooks
    /\ logDir = FALSE
    /\ logFile = <<>>
    /\ logFileExists = FALSE
    /\ logFileErr = "uncalled"
    /\ \E f \in Tokens : ctx = [NoContext EXCEPT !.config = f]
    /\ threads = NoThreads

\* configReader(f) is called with the flag's value.
CfgConfigReader ==
    /\ phase = "config"
    /\ ~cfg.done
    /\ \E files \in SUBSET Files, stdin \in StdinModes, fault \in ConfigFaults \ {"read"} :
          cfg' = [done |-> TRUE, via |-> "configReader", f |-> ctx.config,
                  files |-> files, stdin |-> stdin, fault |-> fault, called |-> TRUE,
                  cr |-> configReader(ctx.config, files, stdin, fault),
                  err |-> configReader(ctx.config, files, stdin, fault).err]
    /\ UNCHANGED <<logVars, fsVars, stdout, stderr, procVars, emitted, nEmits, threads>>

\* initConfig(ctx) is called.
CfgInitConfig ==
    /\ phase = "config"
    /\ ~cfg.done
    /\ \E files \in SUBSET Files, stdin \in StdinModes, fault \in ConfigFaults :
          LET r == initConfig(ctx.config, files, stdin, fault)
          IN /\ cfg' = [done |-> TRUE, via |-> "initConfig", f |-> ctx.config,
                        files |-> files, stdin |-> stdin, fault |-> fault,
                        called |-> r.called, cr |-> r.cr, err |-> r.err]
             /\ ctx' = [ctx EXCEPT !.config = r.config]
    /\ UNCHANGED <<logVars, fsVars, stdout, stderr, analyticsClient, chain, pc, chainErr,
                   phase, ran, logFileErr, nSessions, emitted, nEmits, threads>>

NextCfg == CfgConfigReader \/ CfgInitConfig

SpecConfig == InitCfg /\ [][NextCfg]_vars

\* ------------------------------------------------------------ goroutines
\* After initLogging has returned nil, NThreads goroutines log entries. A
\* goroutine's position: idle, or in the loop over the hooks of its entry's
\* level, about to fire the i-th.
NThreads == 2

IdleThread == [st |-> "idle", id |-> 0, level |-> 0, i |-> 0, outs |-> <<>>]

InitConc ==
    /\ Idle("conc")
    /\ loggerLevel = TraceLevel
    /\ loggerOut = "discard"
    /\ \E c \in Contexts :
          /\ c.config = "" /\ ~c.disableTelemetry
          /\ ctx = c
          /\ hooks = initFileLogger(initScreenLogger(NoHooks, logLevelFromCtx(c, InfoLevel),
                                                     FALSE),
                                    LogFile(FALSE, FALSE, <<>>, "none")).hooks
    /\ logDir = TRUE
    /\ logFile = LogFile(FALSE, FALSE, <<>>, "none").file
    /\ logFileExists = TRUE
    /\ logFileErr = Nil
    /\ threads = [t \in 1..NThreads |-> IdleThread]

\* Goroutine t logs an entry: entry.log begins.
CLog(t) ==
    /\ threads[t].st = "idle"
    /\ nEmits < MaxConcEmits
    /\ \E level \in LevelSet :
          /\ level <= loggerLevel
          /\ threads' = [threads EXCEPT ![t] = [st |-> "firing", id |-> nEmits + 1,
                                                level |-> level, i |-> 1, outs |-> <<>>]]
    /\ nEmits' = nEmits + 1
    /\ UNCHANGED <<logVars, fsVars, stdout, stderr, procVars, emitted, cfg>>

\* Goroutine t fires the next hook of its entry's level; an error ends the loop.
CFire(t) ==
    LET th == threads[t]
        hs == hooks[th.level]
    IN /\ th.st = "firing"
       /\ th.i <= Len(hs)
       /\ \E fault \in Faults :
             LET out == Fire(hs[th.i], [id |-> th.id, level |-> th.level], fault)
             IN /\ stdout' = stdout \o BytesFor(<<out>>, "stdout")
                /\ logFile' = logFile \o BytesFor(<<out>>, "logfile")
                /\ stderr' = stderr \o StderrFor(<<out>>)
                /\ threads' = [threads EXCEPT ![t] =
                                  [th EXCEPT !.i = IF out.err # Nil THEN Len(hs) + 1
                                                   ELSE th.i + 1,
                                             !.outs = Append(th.outs, out)]]
       /\ UNCHANGED <<logVars, logDir, logFileExists, nLogFileOk, nBannerOk, procVars,
                      emitted, nEmits, cfg>>

\* Goroutine t's log call returns.
CReturn(t) ==
    LET th == threads[t]
    IN /\ th.st = "firing"
       /\ th.i > Len(hooks[th.level])
       /\ emitted' = Append(emitted, [id |-> th.id, level |-> th.level, outs |-> th.outs])
       /\ threads' = [threads EXCEPT ![t] = IdleThread]
       /\ UNCHANGED <<logVars, fsVars, stdout, stderr, procVars, nEmits, cfg>>

NextConc == \E t \in 1..NThreads : CLog(t) \/ CFire(t) \/ CReturn(t)

SpecConc == InitConc /\ [][NextConc]_vars

\* ------------------------------------------------------------ reading the state
\* The hooks added to the logger.
Registered == UNION {Range(hooks[l]) : l \in LevelSet}

\* The bytes of a destination cut into lines, each with its newline; bytes
\* after the last newline make a last, unfinished line.
RECURSIVE SplitLines(_, _)
SplitLines(bytes, cur) ==
    IF bytes = <<>> THEN (IF cur = <<>> THEN <<>> ELSE <<cur>>)
    ELSE IF Head(bytes).k = "nl"
    THEN <<Append(cur, Head(bytes))>> \o SplitLines(Tail(bytes), <<>>)
    ELSE SplitLines(Tail(bytes), Append(cur, Head(bytes)))

Lines(bytes) == SplitLines(bytes, <<>>)

Dest(w) == IF w = "stdout" THEN stdout ELSE logFile

\* The line hook h formats for the logged entry rec.
LineOf(h, rec) == Format(h.Formatter, [id |-> rec.id, level |-> rec.level])

\* h's destination holds the line of rec.
Recorded(h, rec) == LineOf(h, rec) \in Range(Lines(Dest(h.Writer)))

\* h's filter accepts rec.
Accepted(h, rec) == rec.level \in Range(Levels(h))

\* What h's Fire did for rec: the outcomes of h among those of the log call.
OutsOf(h, rec) == SelectSeq(rec.outs, LAMBDA o : o.name = h.name)

Fired(h, rec) == OutsOf(h, rec) # <<>>

\* h's own Fire failed for rec.
OwnFailure(h, rec) == \E i \in 1..Len(rec.outs) : rec.outs[i].name = h.name /\ rec.outs[i].err # Nil

RECURSIVE SumOf(_, _)
SumOf(outs, field) ==
    IF outs = <<>> THEN 0
    ELSE (IF field = "fcalls" THEN Head(outs).fcalls ELSE Head(outs).wcalls)
         + SumOf(Tail(outs), field)

FormatCalls(h, rec) == SumOf(OutsOf(h, rec), "fcalls")
WriteCalls(h, rec) == SumOf(OutsOf(h, rec), "wcalls")

\* The ordering of the severities Fatal < Error < Warning < Info < Debug <
\* Trace, with logrus' Panic before Fatal.
Severities == <<FatalLevel, ErrorLevel, WarnLevel, InfoLevel, DebugLevel, TraceLevel>>

Rank(l) == IF l = PanicLevel THEN 0 ELSE CHOOSE i \in 1..Len(Severities) : Severities[i] = l

AtLeastAsSevere(s, t) == Rank(s) <= Rank(t)

IsPrefix(a, b) == Len(a) <= Len(b) /\ SubSeq(b, 1, Len(a)) = a

BannerCount(bytes) == Cardinality({i \in 1..Len(Lines(bytes)) : Lines(bytes)[i] = Banner})

\* ------------------------------------------------------------ C1
\* C1: a sink made with threshold T accepts a severity S exactly when S is
\* at least as severe as T in the order Fatal < Error < Warning < Info <
\* Debug < Trace: its Levels() hold S, and the logger fires it for S, iff
\* Rank(S) <= Rank(T).
C1_SetLevelAcceptsAtLeastAsSevere ==
    \A h \in Registered : \A sev \in LevelSet :
        /\ (sev \in Range(Levels(h))) <=> AtLeastAsSevere(sev, h.lvl)
        /\ (h \in Range(hooks[sev])) <=> AtLeastAsSevere(sev, h.lvl)

\* A sink of threshold Info has written a Warning entry and was not fired
\* for a Debug entry.
C1_Witness ==
    /\ phase = "sink"
    /\ \E h \in Registered :
          /\ h.lvl = InfoLevel
          /\ \E i, j \in 1..Len(emitted) :
                /\ emitted[i].level = WarnLevel /\ Recorded(h, emitted[i])
                /\ emitted[j].level = DebugLevel /\ emitted[j].outs = <<>>

\* ------------------------------------------------------------ C2
\* C2 (as claimed): with the screen sink and the file sink on the logger,
\* a sink's destination holds the line of a logged entry if and only if the
\* sink's own threshold accepts the entry, whatever the other sink did (an
\* entry the sink's own Fire failed on is left aside).
C2_EachSinkRecordsIffAccepted ==
    \A i \in 1..Len(emitted) : \A h \in Registered :
        /\ Recorded(h, emitted[i]) => Accepted(h, emitted[i])
        /\ (Accepted(h, emitted[i]) /\ ~OwnFailure(h, emitted[i])) => Recorded(h, emitted[i])

\* ------------------------------------------------------------ C3
\* C3 (as claimed): a logged entry reaches Fire of every hook filed under
\* its level, also after an earlier hook's Fire returned an error.
C3_EveryAcceptingSinkIsFired ==
    \A i \in 1..Len(emitted) : \A h \in Registered :
        Accepted(h, emitted[i]) => Fired(h, emitted[i])

\* ------------------------------------------------------------ C4
\* The candidates of the claim: the token, then "k0sctl.yml" for the token
\* "k0sctl.yaml" only.
ClaimCandidates(f) == IF f = "k0sctl.yaml" THEN <<"k0sctl.yaml", "k0sctl.yml">> ELSE <<f>>

FileExists(fn, files) == Canon(fn) \in files

\* Index of the first existing candidate, 0 when there is none.
FirstExisting(cands, files) ==
    IF \E i \in 1..Len(cands) : FileExists(cands[i], files)
    THEN CHOOSE i \in 1..Len(cands) :
            /\ FileExists(cands[i], files)
            /\ \A j \in 1..(i - 1) : ~FileExists(cands[j], files)
    ELSE 0

\* C4: for a token other than "-", configReader stats the candidates in
\* order up to the first existing one, opens that one and no other, and
\* returns "failed to locate configuration" iff no candidate exists.
C4_FirstExistingCandidate ==
    (cfg.done /\ cfg.called /\ cfg.f # "-") =>
        LET c == ClaimCandidates(cfg.f)
            m == FirstExisting(c, cfg.files)
            r == cfg.cr
        IN /\ (r.err = "failed to locate configuration") <=> (m = 0)
           /\ ~r.stdinStat
           /\ m = 0 => (r.statted = c /\ r.opens = <<>> /\ r.stream = Nil)
           /\ m # 0 =>
                 /\ r.statted = SubSeq(c, 1, m)
                 /\ r.opens \in {<<>>, <<c[m]>>}
                 /\ r.err # Nil => r.stream = Nil
                 /\ cfg.fault \in {"none", "read"} =>
                       (r.err = Nil /\ r.opens = <<c[m]>> /\ r.stream = Canon(c[m]))

\* "k0sctl.yaml" with only k0sctl.yml present has opened k0sctl.yml.
C4_Witness ==
    /\ cfg.done /\ cfg.called
    /\ cfg.f = "k0sctl.yaml"
    /\ "k0sctl.yaml" \notin cfg.files /\ "k0sctl.yml" \in cfg.files
    /\ cfg.cr.stream = "k0sctl.yml"
    /\ cfg.cr.statted = <<"k0sctl.yaml", "k0sctl.yml">>

\* ------------------------------------------------------------ C5
\* C5 (as claimed): "-" reads no candidate and has exactly two outcomes: the
\* standard input when it is no character device, "can't read stdin" when it
\* is a terminal.
C5_ExactlyTwoOutcomes ==
    (cfg.done /\ cfg.called /\ cfg.f = "-") =>
        /\ cfg.cr.statted = <<>> /\ cfg.cr.opens = <<>>
        /\ \/ cfg.stdin = "pipe" /\ cfg.cr.stream = "stdin" /\ cfg.cr.err = Nil
           \/ cfg.stdin = "tty" /\ cfg.cr.stream = Nil /\ cfg.cr.err = "can't read stdin"

\* C5 (amended): "-" reads no candidate and has three outcomes decided by the
\* standard input: "can't stat stdin" when it cannot be examined, the
\* standard input when it is no character device, "can't read stdin" when it
\* is a terminal; none is "failed to locate configuration".
C5_StdinOutcomes ==
    (cfg.done /\ cfg.called /\ cfg.f = "-") =>
        /\ cfg.cr.statted = <<>> /\ cfg.cr.opens = <<>>
        /\ cfg.cr.err # "failed to locate configuration"
        /\ \/ cfg.stdin = "pipe" /\ cfg.cr.stream = "stdin" /\ cfg.cr.err = Nil
           \/ cfg.stdin = "tty" /\ cfg.cr.stream = Nil /\ cfg.cr.err = "can't read stdin"
           \/ cfg.stdin = "staterr" /\ cfg.cr.stream = Nil /\ cfg.cr.err = "can't stat stdin"

\* "-" was resolved to the redirected standard input while a file named "-"
\* exists.
C5_Witness ==
    /\ cfg.done /\ cfg.called
    /\ cfg.f = "-" /\ "-" \in cfg.files
    /\ cfg.stdin = "pipe" /\ cfg.cr.stream = "stdin"

\* ------------------------------------------------------------ C6
\* C6 (as claimed): after n LogFile calls that returned a writer the log file
\* holds exactly n banner lines.
C6_OneBannerPerInitialization == BannerCount(logFile) = nLogFileOk

\* C6 (amended): the log file is append-only: every step leaves its earlier
\* content as a prefix of the later one; a LogFile call that returns a writer
\* finds or makes the directory and the file and appends the banner line, or
\* nothing when the banner's write fails (its error is dropped). So after n
\* such calls the file holds as many banner lines as banner writes
\* succeeded, n at most.
C6_AppendOnlyBanners ==
    /\ [](/\ BannerCount(logFile) = nBannerOk
          /\ nBannerOk <= nLogFileOk
          /\ nLogFileOk > 0 => (logDir /\ logFileExists))
    /\ [][/\ IsPrefix(logFile, logFile')
          /\ nLogFileOk' = nLogFileOk + 1 =>
                /\ logDir' /\ logFileExists'
                /\ \/ nBannerOk' = nBannerOk + 1 /\ logFile' = logFile \o Banner
                   \/ nBannerOk' = nBannerOk /\ logFile' = logFile
          /\ nLogFileOk' = nLogFileOk => nBannerOk' = nBannerOk]_vars

\* Two processes have initialized the file sink, an entry was written
\* between the two banners.
C6_Witness ==
    /\ nLogFileOk = 2
    /\ BannerCount(logFile) = 2
    /\ Len(Lines(logFile)) = 3
    /\ Lines(logFile)[1] = Banner
    /\ Lines(logFile)[2] # Banner
    /\ Lines(logFile)[3] = Banner

\* ------------------------------------------------------------ C7
\* C7 (as claimed): with goroutines logging concurrently, each destination
\* holds whole lines only, each the line of a logged entry the sink accepts,
\* and once a log call has returned no entry its sink accepts is missing (an
\* entry the sink's own Fire failed on is left aside).
C7_WholeLinesNoneLost ==
    /\ \A w \in {"stdout", "logfile"} : \A i \in 1..Len(Lines(Dest(w))) :
          \/ Lines(Dest(w))[i] = Banner
          \/ \E h \in Registered : \E id \in 1..nEmits : \E level \in Range(Levels(h)) :
                h.Writer = w /\ Lines(Dest(w))[i] = LineOf(h, [id |-> id, level |-> level])
    /\ \A i \in 1..Len(emitted) : \A h \in Registered :
          (Accepted(h, emitted[i]) /\ ~OwnFailure(h, emitted[i])) => Recorded(h, emitted[i])

\* ------------------------------------------------------------ C8
FileSinkRegistered == \E h \in Registered : h.name = "file"

LogFileErrors == {"error while creating log directory", "Failed to open log"}

\* C8: when LogFile fails (the directory cannot be made, the file cannot be
\* opened) no file sink is registered and initLogging / initSilentLogging
\* return that error; in a chain of actions() a function that returns an
\* error is the last one called, the chain returns that error and the
\* command does not run.
C8_FileSinkFailureAbortsStartup ==
    /\ logFileErr \in LogFileErrors =>
          /\ ~FileSinkRegistered
          /\ \E i \in 1..Len(ran) :
                /\ ran[i].f \in {"initLogging", "initSilentLogging"}
                /\ ran[i].err = logFileErr
          /\ phase # "run"
    /\ FileSinkRegistered => logFileErr = Nil
    /\ \A i \in 1..Len(ran) :
          /\ ran[i].f = chain[i]
          /\ ran[i].err # Nil => (i = Len(ran) /\ chainErr = ran[i].err)
    /\ phase = "failed" => (chainErr # Nil /\ Len(ran) >= 1 /\ ran[Len(ran)].err = chainErr)
    /\ phase = "run" => (chainErr = Nil /\ Len(ran) = Len(chain))

\* The log file could not be opened: initLogging returned the error, the
\* chain of five functions ended after the first, only the screen sink is
\* registered.
C8_Witness ==
    /\ phase = "failed"
    /\ logFileErr = "Failed to open log"
    /\ chain = ApplyChain
    /\ Len(ran) = 1
    /\ chainErr = "Failed to open log"
    /\ \E h \in Registered : h.name = "screen"
    /\ ~FileSinkRegistered

\* ------------------------------------------------------------ C9
\* The threshold the claim gives the screen sink.
ClaimedScreenLevel ==
    IF ctx.trace THEN TraceLevel
    ELSE IF ctx.debug THEN DebugLevel
    ELSE IF chain[1] = "initLogging" THEN InfoLevel
    ELSE FatalLevel

\* C9: the screen sink's threshold is Trace with the trace option, else Debug
\* with the debug option, else Info after initLogging and Fatal after
\* initSilentLogging; the file sink's threshold is Debug. Each sink accepts
\* the levels up to its threshold.
C9_ThresholdsFromOptions ==
    \A h \in Registered :
        /\ h.name = "screen" =>
              /\ h.lvl = ClaimedScreenLevel
              /\ Range(Levels(h)) = {l \in LevelSet : l <= ClaimedScreenLevel}
        /\ h.name = "file" =>
              /\ h.lvl = DebugLevel
              /\ Range(Levels(h)) = {l \in LevelSet : l <= DebugLevel}

\* Both options set, silent initialization: the screen sink is at Trace and
\* the file sink is registered.
C9_Witness ==
    /\ ctx.trace /\ ctx.debug
    /\ chain = SilentChain
    /\ \E h \in Registered : h.name = "screen" /\ h.lvl = TraceLevel
    /\ FileSinkRegistered

\* ------------------------------------------------------------ C10
\* C10 (as claimed): an entry the sink's filter accepts makes exactly one
\* write; a rejected one makes no write and no format call.
C10_AcceptedWritesOnce ==
    \A i \in 1..Len(emitted) : \A h \in Registered :
        /\ Accepted(h, emitted[i]) => WriteCalls(h, emitted[i]) = 1
        /\ ~Accepted(h, emitted[i]) =>
              (WriteCalls(h, emitted[i]) = 0 /\ FormatCalls(h, emitted[i]) = 0)

\* C10 (amended): for a sink alone on the logger, an entry its filter
\* accepts makes exactly one format call, and exactly one write when the
\* format call succeeds and none when it fails; a rejected entry makes no
\* format call and no write. The destination gains the entry's line exactly
\* when the write succeeds.
C10_AcceptedFormatsOnceWritesIfFormatted ==
    \A i \in 1..Len(emitted) : \A h \in Registered :
        LET rec == emitted[i]
            formatFailed == \E k \in 1..Len(rec.outs) : rec.outs[k].err = "format"
            writeFailed == \E k \in 1..Len(rec.outs) : rec.outs[k].err = "write"
        IN /\ Accepted(h, rec) =>
                 /\ FormatCalls(h, rec) = 1
                 /\ WriteCalls(h, rec) = (IF formatFailed THEN 0 ELSE 1)
                 /\ Recorded(h, rec) <=> (~formatFailed /\ ~writeFailed)
           /\ ~Accepted(h, rec) =>
                 (WriteCalls(h, rec) = 0 /\ FormatCalls(h, rec) = 0 /\ ~Recorded(h, rec))

\* A sink alone on the logger has met an accepted entry whose format call
\* failed (no write), an accepted entry it wrote, and one it rejected.
C10_Witness ==
    /\ phase = "sink"
    /\ \E h \in Registered : \E i, j \in 1..Len(emitted) :
          /\ Accepted(h, emitted[i]) /\ OwnFailure(h, emitted[i])
          /\ WriteCalls(h, emitted[i]) = 0 /\ FormatCalls(h, emitted[i]) = 1
          /\ ~Accepted(h, emitted[j]) /\ FormatCalls(h, emitted[j]) = 0

====
